---- MODULE Spec2Model ----
(***************************************************************************)
(* State-machine model of the user / calculation backend:                  *)
(*   app/auth.py          password hashing, JWT issue and validation       *)
(*   app/users.py         identity resolver and the user endpoints         *)
(*   app/calculations.py  the calculation (BREAD) endpoints                *)
(* Every request handler is one atomic action (one request run to          *)
(* completion in its own database session).  The response of the last      *)
(* request is kept in the variable last, so that properties can speak      *)
(* about status codes and returned bodies.  The handlers that read and     *)
(* then write are modelled a second time as two steps, for the requests    *)
(* that run at the same time (variable sessions).                          *)
(*                                                                         *)
(* Time is counted in minutes.  Operands are floats in the program; the    *)
(* model draws them from small integers and keeps results as exact         *)
(* fractions <<numerator, denominator>>, so float rounding is not          *)
(* modelled.                                                               *)
(***************************************************************************)
EXTENDS Integers, Sequences, FiniteSets, TLC

\* ------------------------------------------------------------------ bounds
MaxUserId == 2      \* user ids are drawn from 1..MaxUserId
MaxCalcId == 2      \* calculation ids are drawn from 1..MaxCalcId
MaxTokens == 2      \* tokens remembered by clients

\* ------------------------------------------------- program constants
ACCESS_TOKEN_EXPIRE_MINUTES == 30
MaxLimit == 1000
DefaultLimit == 100

\* ------------------------------------------------------- input domains
Usernames == {"alice", "bob", "a@x.com"}
Emails    == {"a@x.com", "b@x.com"}
\* a password is <<first 72 bytes, remainder>>
Passwords == {<<"password1", "">>, <<"password2", "">>}
ShortPasswords == {<<"short", "">>}
BadEmails == {"not-a-valid-email"}
\* passwords of more than 72 bytes that share their first 72 bytes
LongPasswords == {<<"seventy-two-bytes", "x">>, <<"seventy-two-bytes", "y">>}
Salts     == {"s1"}
OpTypes   == {"add", "subtract", "multiply", "divide"}
BadTypes  == {"modulo"}
AVals     == {0, 3}
BVals     == {0, 2}
NoSub     == "<no sub>"
\* the instants (minutes) at which requests arrive
Times     == {0, 20, 40}
UserIds   == 1..MaxUserId
CalcIds   == 1..MaxCalcId
Opt(S)    == {{}} \cup {{x} : x \in S}
\* expires_delta in minutes; {} is None
Deltas    == Opt({0, 10, ACCESS_TOKEN_EXPIRE_MINUTES, -10})
UserUpdates == [username : Opt(Usernames), email : Opt(Emails), password : Opt(Passwords)]
OnDelete  == {"cascade", "orphan", "restrict"}
Pages     == {<<0, DefaultLimit>>, <<0, 1>>, <<1, 1>>}
\* skip and limit are any integers: the endpoint declares them as int
BrowsePages == Pages \cup {<<0, -1>>, <<-1, 1>>}
Dialects  == {"sqlite", "postgresql"}
CalcUsers == <<(<<"alice", "a@x.com">>), (<<"a@x.com", "b@x.com">>)>>
CalcCreates == [a : AVals, b : BVals, type : OpTypes \cup BadTypes]
CalcUpdates == [a : Opt(AVals), b : Opt(BVals), type : Opt(OpTypes \cup BadTypes)]
\* updates of the profile that leave the password alone
OpenUpdates == {d \in UserUpdates : d.password = {}}
\* requests sent while the store fails
FaultCreates == {d \in CalcCreates : d.a = 3 /\ d.type \in {"add", "divide"}}
FaultUpdates == {d \in CalcUpdates : d.a = {} /\ d.type = {}}
\* requests that run at the same time as one another
Requests == {"r1", "r2"}
RaceCreates == {d \in CalcCreates : d.a = 3 /\ d.b = 2 /\ d.type = "add"}
RaceUpdates == [a : Opt({0}), b : Opt({0}), type : Opt({"divide"})]
\* passwords of every length, hashed under different salts
AllPasswords == Passwords \cup LongPasswords
PasswordSalts == {"s1", "s2"}
PasswordUpdates == [username : Opt({"bob"}), email : {{}}, password : Opt(AllPasswords)]

VARIABLES
  users,        \* table users: id -> [username, email, password_hash, is_active]
  calcs,        \* table calculations: id -> [user_id, a, b, type, result, created_at]
  user_seq,     \* next value of the users id sequence
  calc_seq,     \* next value of the calculations id sequence
  now,          \* wall clock, minutes
  tokens,       \* validly signed tokens that clients hold
  last,         \* the last request and its response
  sessions      \* requests in flight that other requests interleave with:
                \* request -> [op, pc, the rows its session loaded, ...]

vars == <<users, calcs, user_seq, calc_seq, now, tokens, last, sessions>>

\* ------------------------------------------------------------- helpers
The(S) == CHOOSE x \in S : TRUE

Max(S) == IF S = {} THEN 0 ELSE CHOOSE x \in S : \A y \in S : y <= x

Min2(x, y) == IF x <= y THEN x ELSE y

Abs(x) == IF x < 0 THEN -x ELSE x

RECURSIVE GCD(_, _)
GCD(x, y) == IF y = 0 THEN x ELSE GCD(y, x % y)

\* the fraction n/d in lowest terms with a positive denominator
Frac(n, d) ==
  LET g == GCD(Abs(n), Abs(d))
      s == IF d < 0 THEN -1 ELSE 1
  IN  <<(s * n) \div g, (s * d) \div g>>

Put(f, k, v) == [x \in (DOMAIN f) \cup {k} |-> IF x = k THEN v ELSE f[x]]

\* mutant: the delete is never committed
DropNothing(f, K) == f

\* db.delete of the rows with ids in K, committed
Drop(f, K) == [x \in (DOMAIN f) \ K |-> f[x]]

\* --------------------------------------------------------- app/auth.py
\* pwd_context.hash: bcrypt digest of the first 72 bytes under a random salt
hash_password(password, salt) == [key |-> password[1], salt |-> salt]

\* pwd_context.verify: recompute with the embedded salt and compare
verify_password(plain_password, hashed_password) ==
  hash_password(plain_password, hashed_password.salt) = hashed_password

\* pwd_context.hash as the installed bcrypt backend runs it: it hashes the
\* first 72 bytes of a longer password, or (bcrypt 5) raises ValueError
HashOutcomes(password, salt) ==
  {[error |-> "none", digest |-> {hash_password(password, salt)}]}
  \cup (IF password[2] # "" THEN {[error |-> "ValueError", digest |-> {}]} ELSE {})

\* pwd_context.verify as the installed bcrypt backend runs it
VerifyOutcomes(plain_password, hashed_password) ==
  {[error |-> "none", value |-> verify_password(plain_password, hashed_password)]}
  \cup (IF plain_password[2] # "" THEN {[error |-> "ValueError", value |-> FALSE]} ELSE {})

\* the expiry that create_access_token embeds; expires_delta is {} for None
TokenExpiry(expires_delta, t) ==
  IF expires_delta # {} /\ The(expires_delta) # 0
  THEN t + The(expires_delta)
  ELSE t + ACCESS_TOKEN_EXPIRE_MINUTES

create_access_token(data, expires_delta, t) ==
  [sub |-> data.sub, exp |-> TokenExpiry(expires_delta, t), sig |-> "good"]

\* mutant: the expiry of the token is not checked
decode_access_token_no_expiry(token, t) ==
  IF token.sig # "good" THEN {}
  ELSE {[sub |-> token.sub, exp |-> token.exp]}

\* jwt.decode under SECRET_KEY: {} stands for None
decode_access_token(token, t) ==
  IF token.sig # "good" THEN {}
  ELSE IF token.exp < t THEN {}
  ELSE {[sub |-> token.sub, exp |-> token.exp]}

\* tokens a client can present that no endpoint issued
FarFuture == Max(Times) + ACCESS_TOKEN_EXPIRE_MINUTES + 1
Malformed  == [sub |-> NoSub, exp |-> 0, sig |-> "malformed"]
NoSubToken == [sub |-> NoSub, exp |-> FarFuture, sig |-> "good"]
BadSigTokens ==
  {[sub |-> u, exp |-> FarFuture, sig |-> "bad"] : u \in Usernames}

\* credentials of a request: {} is a request without Authorization header
Credentials == {{}} \cup {{t} : t \in tokens \cup {Malformed, NoSubToken} \cup BadSigTokens}

\* credentials of the requests to the calculation endpoints
CalcCredentials == {{}} \cup {{t} : t \in tokens}

\* a token as the client that got it holds it: the JWT, and beside it the
\* id of the user it was issued to (not a part of the JWT, never read by
\* the program)
Issued(token, uid) ==
  [sub |-> token.sub, exp |-> token.exp, sig |-> token.sig, issued_to |-> uid]

\* a client keeps the token it was given while it has room for it
Keep(token) == IF Cardinality(tokens) < MaxTokens THEN tokens \cup {token} ELSE tokens

\* the client is synchronous: it sends a request when it has the response
\* to the one before
NoRequest == [op |-> "idle", status |-> 0]

Idle == last = NoRequest

Respond ==
  /\ ~Idle
  /\ UNCHANGED sessions
  /\ last' = NoRequest
  /\ UNCHANGED <<users, calcs, user_seq, calc_seq, now, tokens>>

\* the failures db.commit() or db.refresh() can raise inside a handler
Faults == {"none", "commit", "refresh"}
\* a handler that deletes has no refresh
DeleteFaults == {"none", "commit"}

\* an exception leaves the handler: the framework answers 500 with the body
\* "Internal Server Error", and the session is closed without commit
Uncaught(request, error) ==
  [status |-> 500, detail |-> "Internal Server Error", handled |-> FALSE,
   error |-> error] @@ request

\* except Exception: db.rollback() and an HTTPException(500) with a fixed text
Caught(request, detail, error) ==
  [status |-> 500, detail |-> detail, handled |-> TRUE, error |-> error] @@ request

\* a caller of app/auth.py hashes a password
call_hash_password(password, salt) ==
  /\ Idle
  /\ UNCHANGED sessions
  /\ \E out \in HashOutcomes(password, salt) :
       last' = [op |-> "hash_password", status |-> 0, password |-> password,
                error |-> out.error, digest |-> out.digest]
  /\ UNCHANGED <<users, calcs, user_seq, calc_seq, now, tokens>>

\* and verifies a password against the digest it was given
call_verify_password(plain_password) ==
  /\ last.op = "hash_password"
  /\ UNCHANGED sessions
  /\ last.digest # {}
  /\ \E out \in VerifyOutcomes(plain_password, The(last.digest)) :
       last' = [op |-> "verify_password", status |-> 0, password |-> last.password,
                plain_password |-> plain_password, digest |-> last.digest,
                error |-> out.error, value |-> out.value]
  /\ UNCHANGED <<users, calcs, user_seq, calc_seq, now, tokens>>

\* a caller of app/auth.py issues a token
call_create_access_token(data, expires_delta) ==
  /\ Idle
  /\ UNCHANGED sessions
  /\ last' = [op |-> "create_access_token", status |-> 0, data |-> data,
              expires_delta |-> expires_delta, issued |-> now,
              token |-> create_access_token(data, expires_delta, now)]
  /\ UNCHANGED <<users, calcs, user_seq, calc_seq, now, tokens>>

\* and validates the token it was given at the time t
call_decode_access_token(t) ==
  /\ last.op = "create_access_token"
  /\ UNCHANGED sessions
  /\ t >= now
  /\ now' = t
  /\ last' = [op |-> "decode_access_token", status |-> 0, data |-> last.data,
              expires_delta |-> last.expires_delta, issued |-> last.issued,
              token |-> last.token, payload |-> decode_access_token(last.token, t)]
  /\ UNCHANGED <<users, calcs, user_seq, calc_seq, tokens>>

\* -------------------------------------------------------- app/users.py
UsersWhere(P(_)) == {i \in DOMAIN users : P(users[i])}

\* mutant: a request without credentials is let through as any stored user
get_current_user_dependency_optional(credentials) ==
  IF credentials = {}
  THEN IF DOMAIN users = {} THEN {[status |-> 401, uid |-> 0]}
       ELSE {[status |-> 200, uid |-> i] : i \in DOMAIN users}
  ELSE
    LET payload == decode_access_token(The(credentials), now) IN
    IF payload = {} THEN {[status |-> 401, uid |-> 0]}
    ELSE IF The(payload).sub = NoSub THEN {[status |-> 401, uid |-> 0]}
    ELSE
      LET found == UsersWhere(LAMBDA u : u.username = The(payload).sub) IN
      IF found = {} THEN {[status |-> 401, uid |-> 0]}
      ELSE {[status |-> 200, uid |-> i] : i \in found}

\* mutant: an inactive user is turned down with 403
get_current_user_dependency_active_only(credentials) ==
  IF credentials = {} THEN {[status |-> 403, uid |-> 0]}
  ELSE
    LET payload == decode_access_token(The(credentials), now) IN
    IF payload = {} THEN {[status |-> 401, uid |-> 0]}
    ELSE IF The(payload).sub = NoSub THEN {[status |-> 401, uid |-> 0]}
    ELSE
      LET found == UsersWhere(LAMBDA u : u.username = The(payload).sub) IN
      IF found = {} THEN {[status |-> 401, uid |-> 0]}
      ELSE {[status |-> IF users[i].is_active THEN 200 ELSE 403,
             uid |-> IF users[i].is_active THEN i ELSE 0] : i \in found}

\* mutant: the subject of the token is looked up among the emails
get_current_user_dependency_by_email(credentials) ==
  IF credentials = {} THEN {[status |-> 403, uid |-> 0]}
  ELSE
    LET payload == decode_access_token(The(credentials), now) IN
    IF payload = {} THEN {[status |-> 401, uid |-> 0]}
    ELSE IF The(payload).sub = NoSub THEN {[status |-> 401, uid |-> 0]}
    ELSE
      LET found == UsersWhere(LAMBDA u : u.email = The(payload).sub) IN
      IF found = {} THEN {[status |-> 401, uid |-> 0]}
      ELSE {[status |-> 200, uid |-> i] : i \in found}

\* security = HTTPBearer(): the status it raises for a request without
\* bearer credentials, 200 when it passes them on
security(credentials) == IF credentials = {} THEN 403 ELSE 200

\* Depends(security) followed by get_current_user_dependency: the possible
\* outcomes [status, uid]; uid is the resolved user, 0 when rejected
get_current_user_dependency(credentials) ==
  IF security(credentials) # 200 THEN {[status |-> security(credentials), uid |-> 0]}
  ELSE
    LET payload == decode_access_token(The(credentials), now) IN
    IF payload = {} THEN {[status |-> 401, uid |-> 0]}
    ELSE IF The(payload).sub = NoSub THEN {[status |-> 401, uid |-> 0]}
    ELSE
      LET found == UsersWhere(LAMBDA u : u.username = The(payload).sub) IN
      IF found = {} THEN {[status |-> 401, uid |-> 0]}
      ELSE {[status |-> 200, uid |-> i] : i \in found}

\* mutant: the user endpoints resolve the caller like the calculation
\* endpoints do
get_db_authenticated(credentials) == get_current_user_dependency(credentials)

\* Depends(get_db), the one dependency of get_users, get_user, update_user
\* and delete_user: it opens a session and does not read the credentials of
\* the request
get_db(credentials) == {[status |-> 200, uid |-> 0]}

\* ids a new row of a table can get: the next value of the id sequence
\* (PostgreSQL serial) or the largest stored id plus one (SQLite rowid)
NewIds(table, seq, maxId) == {i \in {seq, Max(DOMAIN table) + 1} : i <= maxId}

\* request validation of UserCreate (a 422 when it fails)
UserCreate(username, email, password) ==
  /\ username \in Usernames
  /\ email \in Emails
  /\ password \in Passwords \cup LongPasswords

UsernameRegistered(username) == UsersWhere(LAMBDA u : u.username = username) # {}

\* mutant: the email check of register_user is missing
EmailNeverRegistered(email) == FALSE

EmailRegistered(email) == UsersWhere(LAMBDA u : u.email = email) # {}

\* POST /users/register
register_user(username, email, password, salt, fault) ==
  /\ Idle
  /\ UNCHANGED sessions
  /\ UNCHANGED <<calcs, calc_seq, now>>
  /\ IF ~UserCreate(username, email, password)
     THEN /\ last' = [op |-> "register_user", status |-> 422,
                      detail |-> "validation error",
                      username |-> username, email |-> email, token |-> {}]
          /\ UNCHANGED <<users, user_seq, tokens>>
     ELSE IF UsernameRegistered(username)
     THEN /\ last' = [op |-> "register_user", status |-> 400,
                      detail |-> "Username already registered",
                      username |-> username, email |-> email, token |-> {}]
          /\ UNCHANGED <<users, user_seq, tokens>>
     ELSE IF EmailRegistered(email)
     THEN /\ last' = [op |-> "register_user", status |-> 400,
                      detail |-> "Email already registered",
                      username |-> username, email |-> email, token |-> {}]
          /\ UNCHANGED <<users, user_seq, tokens>>
     ELSE \E hashed_password \in HashOutcomes(password, salt) :
          LET request == [op |-> "register_user", username |-> username,
                          email |-> email, token |-> {}]
          IN
          IF hashed_password.error # "none"
          THEN /\ last' = Uncaught(request, hashed_password.error)
               /\ UNCHANGED <<users, user_seq, tokens>>
          ELSE \E id \in NewIds(users, user_seq, MaxUserId) :
            LET new_user == [username |-> username, email |-> email,
                             password_hash |-> The(hashed_password.digest),
                             is_active |-> TRUE]
                access_token == create_access_token([sub |-> new_user.username],
                                                    {ACCESS_TOKEN_EXPIRE_MINUTES}, now)
            IN IF fault = "commit"
               THEN /\ last' = Uncaught(request, fault)
                    /\ UNCHANGED <<users, user_seq, tokens>>
               ELSE IF fault = "refresh"
               THEN /\ users' = Put(users, id, new_user)     \* committed before
                    /\ user_seq' = Max({user_seq, id + 1})
                    /\ last' = Uncaught(request, fault)
                    /\ UNCHANGED tokens
               ELSE
               /\ users' = Put(users, id, new_user)
               /\ user_seq' = Max({user_seq, id + 1})
               /\ tokens' = Keep(Issued(access_token, id))
               /\ last' = [op |-> "register_user", status |-> 201,
                           detail |-> "Registration successful",
                           username |-> username, email |-> email,
                           uid |-> id, token |-> {access_token}]

\* mutant: the active flag is checked before the password
LoginStatusActiveFirst(user, password) ==
  IF ~user.is_active THEN 403
  ELSE IF ~verify_password(password, user.password_hash) THEN 401
  ELSE 200

\* the checks of login_user on the user it found, in their order
LoginStatus(user, password) ==
  IF ~verify_password(password, user.password_hash) THEN 401
  ELSE IF ~user.is_active THEN 403
  ELSE 200

\* POST /users/login
login_user(username, password) ==
  /\ Idle
  /\ UNCHANGED sessions
  /\ UNCHANGED <<users, calcs, user_seq, calc_seq, now>>
  /\ LET found == UsersWhere(LAMBDA u : u.username = username \/ u.email = username)
         reply(status, id, token) ==
           [op |-> "login_user", status |-> status, username |-> username,
            password |-> password, uid |-> id, token |-> token]
     IN
     IF found = {}
     THEN /\ last' = reply(401, 0, {})
          /\ UNCHANGED tokens
     ELSE \E id \in found :        \* .first() of a query without ORDER BY
          \E verified \in VerifyOutcomes(password, users[id].password_hash) :
            LET user == users[id]
                access_token == create_access_token([sub |-> user.username],
                                                    {ACCESS_TOKEN_EXPIRE_MINUTES}, now)
            IN IF verified.error # "none"
               THEN /\ last' = Uncaught(reply(500, id, {}), verified.error)
                    /\ UNCHANGED tokens
               ELSE IF LoginStatus(user, password) # 200
               THEN /\ last' = reply(LoginStatus(user, password), id, {})
                    /\ UNCHANGED tokens
               ELSE /\ tokens' = Keep(Issued(access_token, id))
                    /\ last' = reply(200, id, {access_token})

\* GET /users/me
get_current_user_info(credentials) ==
  /\ Idle
  /\ UNCHANGED sessions
  /\ UNCHANGED <<users, calcs, user_seq, calc_seq, now, tokens>>
  /\ \E auth \in get_current_user_dependency(credentials) :
       last' = [op |-> "get_current_user_info", status |-> auth.status,
                credentials |-> credentials, uid |-> auth.uid,
                body |-> IF auth.status = 200 THEN {users[auth.uid]} ELSE {}]

\* the sequences a query can return its rows in: every arrangement of the
\* ids in S in which keys (by Key) never increase; a constant Key leaves
\* the order to the database
Orderings(S, Key(_)) ==
  {f \in [1..Cardinality(S) -> S] :
     /\ \A i, j \in 1..Cardinality(S) : i # j => f[i] # f[j]
     /\ \A i, j \in 1..Cardinality(S) : i < j => Key(f[i]) >= Key(f[j])}

\* .offset(skip).limit(limit)
Page(rows, skip, limit) == SubSeq(rows, skip + 1, Min2(Len(rows), skip + limit))

\* .offset(skip).limit(limit).all() as the database runs it: PostgreSQL
\* refuses a negative OFFSET or LIMIT, SQLite reads a negative LIMIT as no
\* limit and a negative OFFSET as 0
OffsetLimit(rows, skip, limit, dialect) ==
  IF skip >= 0 /\ limit >= 0 THEN [error |-> FALSE, rows |-> Page(rows, skip, limit)]
  ELSE IF dialect = "postgresql" THEN [error |-> TRUE, rows |-> << >>]
  ELSE [error |-> FALSE,
        rows |-> Page(rows, IF skip < 0 THEN 0 ELSE skip,
                      IF limit < 0 THEN Len(rows) ELSE limit)]

get_users(credentials, skip, limit) ==
  /\ Idle
  /\ UNCHANGED sessions
  /\ UNCHANGED <<users, calcs, user_seq, calc_seq, now, tokens>>
  /\ \E auth \in get_db(credentials), rows \in Orderings(DOMAIN users, LAMBDA i : 0) :
       last' = [op |-> "get_users", status |-> auth.status, credentials |-> credentials,
                skip |-> skip, limit |-> limit,
                body |-> IF auth.status = 200 THEN Page(rows, skip, limit) ELSE << >>]

get_user(credentials, user_id) ==
  /\ Idle
  /\ UNCHANGED sessions
  /\ UNCHANGED <<users, calcs, user_seq, calc_seq, now, tokens>>
  /\ \E auth \in get_db(credentials) :
       LET reply(status, body) ==
             [op |-> "get_user", status |-> status, credentials |-> credentials,
              id |-> user_id, body |-> body]
       IN IF auth.status # 200 THEN last' = reply(auth.status, {})
          ELSE IF user_id \notin DOMAIN users THEN last' = reply(404, {})
          ELSE last' = reply(200, {users[user_id]})

\* mutant: the username check of update_user is missing
UsernameNeverTaken(username, user_id) == FALSE

UsernameTakenByOther(username, user_id) ==
  \E i \in DOMAIN users : users[i].username = username /\ i # user_id

\* mutant: the user's own row is not left out of the email check
EmailTakenByAnyone(email, user_id) ==
  \E i \in DOMAIN users : users[i].email = email

EmailTakenByOther(email, user_id) ==
  \E i \in DOMAIN users : users[i].email = email /\ i # user_id

\* PUT /users/{user_id}; an absent (or empty) field of user_data is {}
update_user(credentials, user_id, user_data, salt, fault) ==
  /\ Idle
  /\ UNCHANGED sessions
  /\ UNCHANGED <<calcs, user_seq, calc_seq, now, tokens>>
  /\ \E auth \in get_db(credentials) :
     LET reply(status, detail) ==
           [op |-> "update_user", status |-> status, credentials |-> credentials,
            id |-> user_id, user_data |-> user_data, detail |-> detail]
     IN
     IF auth.status # 200
     THEN /\ last' = reply(auth.status, "Not authenticated")
          /\ UNCHANGED users
     ELSE IF user_id \notin DOMAIN users
     THEN /\ last' = reply(404, "User not found")
          /\ UNCHANGED users
     ELSE
       LET user0 == users[user_id]
           name_taken == /\ user_data.username # {}
                         /\ UsernameTakenByOther(The(user_data.username), user_id)
           user1 == IF user_data.username # {}
                    THEN [user0 EXCEPT !.username = The(user_data.username)] ELSE user0
           email_taken == /\ user_data.email # {}
                          /\ EmailTakenByOther(The(user_data.email), user_id)
           user2 == IF user_data.email # {}
                    THEN [user1 EXCEPT !.email = The(user_data.email)] ELSE user1
           hashes == IF user_data.password # {}
                     THEN HashOutcomes(The(user_data.password), salt)
                     ELSE {[error |-> "none", digest |-> {user2.password_hash}]}
       IN IF name_taken
          THEN /\ last' = reply(400, "Username already taken")
               /\ UNCHANGED users    \* session closed without commit
          ELSE IF email_taken
          THEN /\ last' = reply(400, "Email already taken")
               /\ UNCHANGED users    \* session closed without commit
          ELSE \E hashed_password \in hashes :
               LET user3 == [user2 EXCEPT !.password_hash = The(hashed_password.digest)]
               IN IF hashed_password.error # "none"
                  THEN /\ last' = Uncaught(reply(500, ""), hashed_password.error)
                       /\ UNCHANGED users
                  ELSE IF fault = "commit"
                  THEN /\ last' = Uncaught(reply(500, ""), fault)
                       /\ UNCHANGED users
                  ELSE IF fault = "refresh"
                  THEN /\ users' = [users EXCEPT ![user_id] = user3]   \* committed before
                       /\ last' = Uncaught(reply(500, ""), fault)
                  ELSE /\ users' = [users EXCEPT ![user_id] = user3]
                       /\ last' = reply(200, "updated")

\* mutant: the filter on user_id is missing
OwnedByAnyone(user_id) == DOMAIN calcs

\* rows of calculations whose user_id is the given user
OwnedBy(user_id) == {c \in DOMAIN calcs : calcs[c].user_id = user_id}

\* DELETE /users/{user_id}.  What happens to the calculations of the user
\* is decided by the table definitions: they are deleted with the user
\* ("cascade"), left behind ("orphan"), or make the delete fail ("restrict")
delete_user(credentials, user_id, on_delete, fault) ==
  /\ Idle
  /\ UNCHANGED sessions
  /\ UNCHANGED <<user_seq, calc_seq, now, tokens>>
  /\ \E auth \in get_db(credentials) :
     LET reply(status) ==
           [op |-> "delete_user", status |-> status, credentials |-> credentials,
            id |-> user_id]
     IN
     IF auth.status # 200
     THEN /\ last' = reply(auth.status)
          /\ UNCHANGED <<users, calcs>>
     ELSE IF user_id \notin DOMAIN users
     THEN /\ last' = reply(404)
          /\ UNCHANGED <<users, calcs>>
     ELSE IF on_delete = "restrict" /\ OwnedBy(user_id) # {}
     THEN /\ last' = reply(500)
          /\ UNCHANGED <<users, calcs>>
     ELSE IF fault = "commit"
     THEN /\ last' = Uncaught(reply(500), fault)
          /\ UNCHANGED <<users, calcs>>
     ELSE /\ users' = Drop(users, {user_id})
          /\ calcs' = IF on_delete = "cascade" THEN Drop(calcs, OwnedBy(user_id)) ELSE calcs
          /\ last' = reply(200)

\* the active flag of a user is cleared in the store (no endpoint does it)
deactivate_user(user_id) ==
  /\ Idle
  /\ UNCHANGED sessions
  /\ user_id \in DOMAIN users
  /\ users[user_id].is_active
  /\ users' = [users EXCEPT ![user_id].is_active = FALSE]
  /\ UNCHANGED <<calcs, user_seq, calc_seq, now, tokens, last>>

\* time passes
Tick ==
  /\ Idle
  /\ UNCHANGED sessions
  /\ \E t \in Times : t > now /\ now' = t
  /\ UNCHANGED <<users, calcs, user_seq, calc_seq, tokens, last>>

\* ------------------------------------------------- app/calculations.py
\* app.operations.calculate: the result or the error it raises
calculate(a, b, type) ==
  IF type = "add" THEN [error |-> "none", value |-> Frac(a + b, 1)]
  ELSE IF type = "subtract" THEN [error |-> "none", value |-> Frac(a - b, 1)]
  ELSE IF type = "multiply" THEN [error |-> "none", value |-> Frac(a * b, 1)]
  ELSE IF type = "divide"
  THEN IF b = 0 THEN [error |-> "DivisionByZeroError", value |-> <<0, 1>>]
       ELSE [error |-> "none", value |-> Frac(a, b)]
  ELSE [error |-> "InvalidOperationError", value |-> <<0, 1>>]

\* mutant: the validation turns every division down
CalculationCreateNoDivide(data) == data.type \in OpTypes \ {"divide"}

\* request validation of CalculationCreate (a 422 when it fails)
CalculationCreate(data) ==
  /\ data.type \in OpTypes
  /\ ~(data.type = "divide" /\ data.b = 0)

\* request validation of CalculationUpdate; whether an unknown type gets
\* past it is not decided by the handlers, so both outcomes are possible
CalculationUpdate(data) ==
  IF data.type # {} /\ The(data.type) \notin OpTypes THEN {TRUE, FALSE} ELSE {TRUE}

\* a row as CalculationResponse returns it
CalculationResponse(id) == [id |-> id] @@ calcs[id]

\* mutant: the row is looked up by id alone
OwnCalculationAnyOwner(calculation_id, user_id) ==
  {c \in DOMAIN calcs : c = calculation_id}

\* the row with the given id that belongs to the given user: {} or {id}
OwnCalculation(calculation_id, user_id) ==
  {c \in DOMAIN calcs : c = calculation_id /\ calcs[c].user_id = user_id}

Rejected(op, credentials, auth) ==
  /\ last' = [op |-> op, status |-> auth.status, credentials |-> credentials,
              uid |-> 0, body |-> {}]
  /\ UNCHANGED <<calcs, calc_seq>>

\* mutant: the operands are stored the wrong way round
NewCalculationSwapped(user_id, calculation_data, result, t) ==
  [user_id |-> user_id, a |-> calculation_data.b, b |-> calculation_data.a,
   type |-> calculation_data.type, result |-> result, created_at |-> t]

\* Calculation(user_id=..., a=..., b=..., type=..., result=...), created at t
NewCalculation(user_id, calculation_data, result, t) ==
  [user_id |-> user_id, a |-> calculation_data.a, b |-> calculation_data.b,
   type |-> calculation_data.type, result |-> result, created_at |-> t]

\* POST /calculations
add_calculation(credentials, calculation_data, fault) ==
  /\ Idle
  /\ UNCHANGED sessions
  /\ UNCHANGED <<users, user_seq, now, tokens>>
  /\ \E auth \in get_current_user_dependency(credentials) :
       IF auth.status # 200 THEN Rejected("add_calculation", credentials, auth)
       ELSE IF ~CalculationCreate(calculation_data)
       THEN /\ last' = [op |-> "add_calculation", status |-> 422,
                        credentials |-> credentials, uid |-> auth.uid,
                        data |-> calculation_data, body |-> {}]
            /\ UNCHANGED <<calcs, calc_seq>>
       ELSE
         LET r == calculate(calculation_data.a, calculation_data.b, calculation_data.type) IN
         IF r.error # "none"
         THEN /\ last' = [op |-> "add_calculation", status |-> 400,
                          credentials |-> credentials, uid |-> auth.uid,
                          data |-> calculation_data, body |-> {}]
              /\ UNCHANGED <<calcs, calc_seq>>
         ELSE \E id \in NewIds(calcs, calc_seq, MaxCalcId) :
                LET new_calculation == NewCalculation(auth.uid, calculation_data,
                                                      r.value, now)
                    failed == Caught([op |-> "add_calculation",
                                      credentials |-> credentials, uid |-> auth.uid,
                                      data |-> calculation_data, body |-> {}],
                                     "Internal server error while creating calculation",
                                     fault)
                IN IF fault = "commit"
                   THEN /\ last' = failed
                        /\ UNCHANGED <<calcs, calc_seq>>
                   ELSE IF fault = "refresh"
                   THEN /\ calcs' = Put(calcs, id, new_calculation)   \* committed before
                        /\ calc_seq' = Max({calc_seq, id + 1})
                        /\ last' = failed
                   ELSE
                   /\ calcs' = Put(calcs, id, new_calculation)
                   /\ calc_seq' = Max({calc_seq, id + 1})
                   /\ last' = [op |-> "add_calculation", status |-> 201,
                               credentials |-> credentials, uid |-> auth.uid,
                               data |-> calculation_data,
                               body |-> {[id |-> id] @@ new_calculation}]

\* GET /calculations
browse_calculations(credentials, skip, limit) ==
  /\ Idle
  /\ UNCHANGED sessions
  /\ UNCHANGED <<users, user_seq, now, tokens>>
  /\ \E auth \in get_current_user_dependency(credentials) :
       IF auth.status # 200 THEN Rejected("browse_calculations", credentials, auth)
       ELSE \E rows \in Orderings(OwnedBy(auth.uid), LAMBDA c : calcs[c].created_at),
               dialect \in Dialects :
              LET got == OffsetLimit(rows, skip, Min2(limit, MaxLimit), dialect)
                  page == got.rows
              IN
              /\ last' = [op |-> "browse_calculations",
                          status |-> IF got.error THEN 500 ELSE 200,
                          credentials |-> credentials, uid |-> auth.uid,
                          skip |-> skip, limit |-> limit,
                          body |-> [i \in 1..Len(page) |-> CalculationResponse(page[i])]]
              /\ UNCHANGED <<calcs, calc_seq>>

\* GET /calculations/{calculation_id}
read_calculation(credentials, calculation_id) ==
  /\ Idle
  /\ UNCHANGED sessions
  /\ UNCHANGED <<users, user_seq, now, tokens>>
  /\ \E auth \in get_current_user_dependency(credentials) :
       IF auth.status # 200 THEN Rejected("read_calculation", credentials, auth)
       ELSE
         LET calculation == OwnCalculation(calculation_id, auth.uid) IN
         /\ UNCHANGED <<calcs, calc_seq>>
         /\ IF calculation = {}
            THEN last' = [op |-> "read_calculation", status |-> 404,
                          credentials |-> credentials, uid |-> auth.uid,
                          id |-> calculation_id, detail |-> "Calculation not found",
                          body |-> {}]
            ELSE last' = [op |-> "read_calculation", status |-> 200,
                          credentials |-> credentials, uid |-> auth.uid,
                          id |-> calculation_id, detail |-> "",
                          body |-> {CalculationResponse(calculation_id)}]

\* mutant: a field is taken as supplied when it is truthy (0 is dropped)
AssignTruthy(row, calculation_data) ==
  [row EXCEPT !.a = IF calculation_data.a # {} /\ The(calculation_data.a) # 0
                    THEN The(calculation_data.a) ELSE @,
              !.b = IF calculation_data.b # {} /\ The(calculation_data.b) # 0
                    THEN The(calculation_data.b) ELSE @,
              !.type = IF calculation_data.type # {} THEN The(calculation_data.type) ELSE @]

\* mutant: the request replaces the row, a field that is not supplied is
\* reset
AssignReplace(row, calculation_data) ==
  [row EXCEPT !.a = IF calculation_data.a # {} THEN The(calculation_data.a) ELSE 0,
              !.b = IF calculation_data.b # {} THEN The(calculation_data.b) ELSE 0,
              !.type = IF calculation_data.type # {} THEN The(calculation_data.type) ELSE "add"]

\* the fields of calculation_data that are not None, applied to a row
Assign(row, calculation_data) ==
  [row EXCEPT !.a = IF calculation_data.a # {} THEN The(calculation_data.a) ELSE @,
              !.b = IF calculation_data.b # {} THEN The(calculation_data.b) ELSE @,
              !.type = IF calculation_data.type # {} THEN The(calculation_data.type) ELSE @]

\* mutant: the result is not recomputed
RecalculatedStale(row) == row

\* calculation.result = calculate(calculation.a, calculation.b, calculation.type)
Recalculated(row) ==
  [row EXCEPT !.result = calculate(row.a, row.b, row.type).value]

\* mutant: the rollback leaves the pending changes in the table
RollbackKeepsPending(stored, pending) == pending

\* db.rollback(): the pending changes of the session are discarded
Rollback(stored, pending) == stored

\* mutant: the result is computed from the row as it was before the
\* supplied fields were assigned
EditOutcomeResultFirst(row, calculation_data) ==
  LET calculation == Assign(row, calculation_data)
      updated == \/ calculation_data.a # {}
                 \/ calculation_data.b # {}
                 \/ calculation_data.type # {}
      r == calculate(calculation.a, calculation.b, calculation.type)
      stale == [calculation EXCEPT !.result = calculate(row.a, row.b, row.type).value]
  IN IF ~updated
     THEN [status |-> 200, detail |-> "", stored |-> row, returned |-> {calculation},
           committed |-> FALSE]
     ELSE IF r.error = "none"
     THEN [status |-> 200, detail |-> "", stored |-> stale, returned |-> {stale},
           committed |-> TRUE]
     ELSE [status |-> 400, detail |-> r.error,
           stored |-> Rollback(row, calculation), returned |-> {}, committed |-> FALSE]

\* edit_calculation on the row it found: the status and detail it answers,
\* the row that is stored when the session ends and the row it returns
EditOutcome(row, calculation_data) ==
  LET calculation == Assign(row, calculation_data)
      updated == \/ calculation_data.a # {}
                 \/ calculation_data.b # {}
                 \/ calculation_data.type # {}
      r == calculate(calculation.a, calculation.b, calculation.type)
  IN IF ~updated
     THEN \* return calculation: nothing is committed
          [status |-> 200, detail |-> "", stored |-> row, returned |-> {calculation},
           committed |-> FALSE]
     ELSE IF r.error = "none"
     THEN [status |-> 200, detail |-> "", stored |-> Recalculated(calculation),
           returned |-> {Recalculated(calculation)}, committed |-> TRUE]
     ELSE [status |-> 400, detail |-> r.error,
           stored |-> Rollback(row, calculation), returned |-> {}, committed |-> FALSE]

\* PUT /calculations/{calculation_id}
edit_calculation(credentials, calculation_id, calculation_data, fault) ==
  /\ Idle
  /\ UNCHANGED sessions
  /\ UNCHANGED <<users, user_seq, now, tokens>>
  /\ \E auth \in get_current_user_dependency(credentials),
        valid \in CalculationUpdate(calculation_data) :
       LET reply(status, detail, body) ==
             [op |-> "edit_calculation", status |-> status,
              credentials |-> credentials, uid |-> auth.uid, id |-> calculation_id,
              data |-> calculation_data, detail |-> detail, body |-> body]
       IN
       IF auth.status # 200 THEN Rejected("edit_calculation", credentials, auth)
       ELSE IF ~valid
       THEN /\ last' = reply(422, "", {})
            /\ UNCHANGED <<calcs, calc_seq>>
       ELSE IF OwnCalculation(calculation_id, auth.uid) = {}
       THEN /\ last' = reply(404, "Calculation not found", {})
            /\ UNCHANGED <<calcs, calc_seq>>
       ELSE
         LET out == EditOutcome(calcs[calculation_id], calculation_data)
             failed == Caught(reply(500, "", {}),
                              "Internal server error while updating calculation", fault)
         IN
         IF out.committed /\ fault = "commit"
         THEN /\ calcs' = [calcs EXCEPT ![calculation_id] =
                                          Rollback(calcs[calculation_id], out.stored)]
              /\ last' = failed
              /\ UNCHANGED calc_seq
         ELSE IF out.committed /\ fault = "refresh"
         THEN /\ calcs' = [calcs EXCEPT ![calculation_id] = out.stored]
              /\ last' = failed
              /\ UNCHANGED calc_seq
         ELSE
         /\ calcs' = [calcs EXCEPT ![calculation_id] = out.stored]
         /\ last' = reply(out.status, out.detail,
                          {[id |-> calculation_id] @@ x : x \in out.returned})
         /\ UNCHANGED calc_seq

\* PATCH /calculations/{calculation_id}
edit_calculation_patch(credentials, calculation_id, calculation_data, fault) ==
  edit_calculation(credentials, calculation_id, calculation_data, fault)

\* DELETE /calculations/{calculation_id}
delete_calculation(credentials, calculation_id, fault) ==
  /\ Idle
  /\ UNCHANGED sessions
  /\ UNCHANGED <<users, user_seq, now, tokens>>
  /\ \E auth \in get_current_user_dependency(credentials) :
       LET reply(status, detail) ==
             [op |-> "delete_calculation", status |-> status,
              credentials |-> credentials, uid |-> auth.uid, id |-> calculation_id,
              detail |-> detail]
       IN
       IF auth.status # 200 THEN Rejected("delete_calculation", credentials, auth)
       ELSE IF OwnCalculation(calculation_id, auth.uid) = {}
       THEN /\ last' = reply(404, "Calculation not found")
            /\ UNCHANGED <<calcs, calc_seq>>
       ELSE IF fault = "commit"
       THEN /\ last' = Uncaught(reply(500, ""), fault)
            /\ UNCHANGED <<calcs, calc_seq>>
       ELSE /\ calcs' = Drop(calcs, {calculation_id})
            /\ last' = reply(200, "deleted successfully")
            /\ UNCHANGED calc_seq

\* ------------------------------------------- requests that interleave
\* A handler that reads and then writes is two steps when another request
\* runs between them: the step up to its last query, and the step from
\* there to its response.  sessions[r] keeps what the database session of
\* request r loaded and what the handler has pending; the field alone
\* tells that no other request was in flight when r began.

\* flush of a modified object: UPDATE ... SET the columns whose value differs
\* from the loaded one, WHERE id = the id of the row
Flush(current, loaded, pending) ==
  [col \in DOMAIN current |->
     IF pending[col] # loaded[col] THEN pending[col] ELSE current[col]]

\* edit_calculation up to the row it loads (or the response that ends it)
edit_calculation_load(r, credentials, calculation_id, calculation_data) ==
  /\ r \notin DOMAIN sessions
  /\ UNCHANGED <<users, calcs, user_seq, calc_seq, now, tokens, last>>
  /\ \E auth \in get_current_user_dependency(credentials),
        valid \in CalculationUpdate(calculation_data) :
       LET session(pc, status, loaded) ==
             [op |-> "edit_calculation", pc |-> pc, status |-> status,
              alone |-> (DOMAIN sessions = {}), uid |-> auth.uid,
              id |-> calculation_id, data |-> calculation_data,
              loaded |-> loaded, returned |-> {}]
       IN
       IF auth.status # 200
       THEN sessions' = Put(sessions, r, session("done", auth.status, {}))
       ELSE IF ~valid
       THEN sessions' = Put(sessions, r, session("done", 422, {}))
       ELSE IF OwnCalculation(calculation_id, auth.uid) = {}
       THEN sessions' = Put(sessions, r, session("done", 404, {}))
       ELSE sessions' = Put(sessions, r, session("loaded", 0, {calcs[calculation_id]}))

\* edit_calculation from the assignments to the response
edit_calculation_commit(r) ==
  /\ r \in DOMAIN sessions
  /\ sessions[r].op = "edit_calculation"
  /\ sessions[r].pc = "loaded"
  /\ UNCHANGED <<users, user_seq, calc_seq, now, tokens, last>>
  /\ LET s == sessions[r]
         out == EditOutcome(The(s.loaded), s.data)
         done(status, returned) ==
           Put(sessions, r, [s EXCEPT !.pc = "done", !.status = status,
                                      !.returned = returned])
     IN
     IF ~out.committed
     THEN /\ sessions' = done(out.status, out.returned)
          /\ UNCHANGED calcs
     ELSE IF s.id \notin DOMAIN calcs
     THEN \* the UPDATE matches no row: StaleDataError, except Exception
          /\ sessions' = done(500, {})
          /\ UNCHANGED calcs
     ELSE LET written == Flush(calcs[s.id], The(s.loaded), out.stored)
          IN /\ calcs' = [calcs EXCEPT ![s.id] = written]
             /\ sessions' = done(200, {written})     \* db.refresh reads it back

\* mutant: the tables have no unique constraints
UniqueViolationNever(row, self) == FALSE

\* the unique constraints of the table users on username and on email:
\* a row other than the row itself has the username or the email
UniqueViolation(row, self) ==
  \E i \in DOMAIN users \ self :
    users[i].username = row.username \/ users[i].email = row.email

\* register_user up to the end of its checks (or the response that ends it)
register_user_check(r, username, email, password, salt) ==
  /\ r \notin DOMAIN sessions
  /\ UNCHANGED <<users, calcs, user_seq, calc_seq, now, tokens, last>>
  /\ LET session(pc, status, pending) ==
           [op |-> "register_user", pc |-> pc, status |-> status,
            alone |-> (DOMAIN sessions = {}), id |-> 0,
            username |-> {username}, email |-> {email},
            loaded |-> {}, pending |-> pending]
     IN
     IF ~UserCreate(username, email, password)
     THEN sessions' = Put(sessions, r, session("done", 422, {}))
     ELSE IF UsernameRegistered(username)
     THEN sessions' = Put(sessions, r, session("done", 400, {}))
     ELSE IF EmailRegistered(email)
     THEN sessions' = Put(sessions, r, session("done", 400, {}))
     ELSE \E hashed_password \in HashOutcomes(password, salt) :
          IF hashed_password.error # "none"
          THEN sessions' = Put(sessions, r, session("done", 500, {}))
          ELSE sessions' = Put(sessions, r, session("checked", 0,
                             {[username |-> username, email |-> email,
                               password_hash |-> The(hashed_password.digest),
                               is_active |-> TRUE]}))

\* register_user from db.add to the response
register_user_commit(r) ==
  /\ r \in DOMAIN sessions
  /\ sessions[r].op = "register_user"
  /\ sessions[r].pc = "checked"
  /\ UNCHANGED <<calcs, calc_seq, now, last>>
  /\ LET s == sessions[r]
         new_user == The(s.pending)
         access_token == create_access_token([sub |-> new_user.username],
                                             {ACCESS_TOKEN_EXPIRE_MINUTES}, now)
     IN
     IF UniqueViolation(new_user, {})
     THEN \* IntegrityError at commit, not caught
          /\ sessions' = Put(sessions, r, [s EXCEPT !.pc = "done", !.status = 500])
          /\ UNCHANGED <<users, user_seq, tokens>>
     ELSE \E id \in NewIds(users, user_seq, MaxUserId) :
            /\ users' = Put(users, id, new_user)
            /\ user_seq' = Max({user_seq, id + 1})
            /\ tokens' = Keep(Issued(access_token, id))
            /\ sessions' = Put(sessions, r, [s EXCEPT !.pc = "done", !.status = 201,
                                                      !.id = id])

\* update_user up to the end of its checks (or the response that ends it)
update_user_check(r, user_id, user_data, salt) ==
  /\ r \notin DOMAIN sessions
  /\ UNCHANGED <<users, calcs, user_seq, calc_seq, now, tokens, last>>
  /\ LET session(pc, status, loaded, pending) ==
           [op |-> "update_user", pc |-> pc, status |-> status,
            alone |-> (DOMAIN sessions = {}), id |-> user_id,
            username |-> user_data.username, email |-> user_data.email,
            loaded |-> loaded, pending |-> pending]
     IN
     IF user_id \notin DOMAIN users
     THEN sessions' = Put(sessions, r, session("done", 404, {}, {}))
     ELSE
       LET user0 == users[user_id]
           name_taken == /\ user_data.username # {}
                         /\ UsernameTakenByOther(The(user_data.username), user_id)
           user1 == IF user_data.username # {}
                    THEN [user0 EXCEPT !.username = The(user_data.username)] ELSE user0
           email_taken == /\ user_data.email # {}
                          /\ EmailTakenByOther(The(user_data.email), user_id)
           user2 == IF user_data.email # {}
                    THEN [user1 EXCEPT !.email = The(user_data.email)] ELSE user1
           hashes == IF user_data.password # {}
                     THEN HashOutcomes(The(user_data.password), salt)
                     ELSE {[error |-> "none", digest |-> {user2.password_hash}]}
       IN IF name_taken \/ email_taken
          THEN sessions' = Put(sessions, r, session("done", 400, {user0}, {}))
          ELSE \E hashed_password \in hashes :
               IF hashed_password.error # "none"
               THEN sessions' = Put(sessions, r, session("done", 500, {user0}, {}))
               ELSE sessions' = Put(sessions, r, session("checked", 0, {user0},
                      {[user2 EXCEPT !.password_hash = The(hashed_password.digest)]}))

\* update_user from db.commit to the response
update_user_commit(r) ==
  /\ r \in DOMAIN sessions
  /\ sessions[r].op = "update_user"
  /\ sessions[r].pc = "checked"
  /\ UNCHANGED <<calcs, user_seq, calc_seq, now, tokens, last>>
  /\ LET s == sessions[r]
         done(status) == Put(sessions, r, [s EXCEPT !.pc = "done", !.status = status])
     IN
     IF s.id \notin DOMAIN users
     THEN \* the UPDATE matches no row: StaleDataError, not caught
          /\ sessions' = done(500)
          /\ UNCHANGED users
     ELSE LET written == Flush(users[s.id], The(s.loaded), The(s.pending))
          IN IF UniqueViolation(written, {s.id})
             THEN \* IntegrityError at commit, not caught
                  /\ sessions' = done(500)
                  /\ UNCHANGED users
             ELSE /\ users' = [users EXCEPT ![s.id] = written]
                  /\ sessions' = done(200)

\* the requests in flight have all answered and their clients go on
RespondAll ==
  /\ sessions # << >>
  /\ \A r \in DOMAIN sessions : sessions[r].pc = "done"
  /\ sessions' = << >>
  /\ UNCHANGED <<users, calcs, user_seq, calc_seq, now, tokens, last>>

Init ==
  /\ users = << >>
  /\ calcs = << >>
  /\ user_seq = 1
  /\ calc_seq = 1
  /\ now = 0
  /\ tokens = {}
  /\ last = NoRequest
  /\ sessions = << >>

\* the user endpoints, the identity resolver and the clock
Next ==
  \/ Idle /\ \E u \in Usernames, e \in Emails \cup BadEmails,
                p \in Passwords \cup ShortPasswords, s \in Salts : register_user(u, e, p, s, "none")
  \/ Idle /\ \E u \in Usernames \cup Emails, p \in Passwords : login_user(u, p)
  \/ Idle /\ \E c \in Credentials : get_current_user_info(c)
  \/ Idle /\ \E p \in Pages : get_users({}, p[1], p[2])
  \/ Idle /\ \E i \in UserIds : get_user({}, i)
  \/ Idle /\ \E i \in UserIds, d \in UserUpdates, s \in Salts : update_user({}, i, d, s, "none")
  \/ Idle /\ \E i \in UserIds, m \in OnDelete : delete_user({}, i, m, "none")
  \/ Idle /\ \E i \in UserIds : deactivate_user(i)
  \/ Tick
  \/ Respond

Spec == Init /\ [][Next]_vars

\* the calculation endpoints, used by the two users that register
NextCalc ==
  \/ Idle /\ \E k \in DOMAIN CalcUsers :
       register_user(CalcUsers[k][1], CalcUsers[k][2], <<"password1", "">>, "s1", "none")
  \/ Idle /\ \E c \in CalcCredentials, d \in CalcCreates : add_calculation(c, d, "none")
  \/ Idle /\ \E c \in CalcCredentials, p \in BrowsePages : browse_calculations(c, p[1], p[2])
  \/ Idle /\ \E c \in CalcCredentials, i \in CalcIds : read_calculation(c, i)
  \/ Idle /\ \E c \in CalcCredentials, i \in CalcIds, d \in CalcUpdates : edit_calculation(c, i, d, "none")
  \/ Idle /\ \E c \in CalcCredentials, i \in CalcIds, d \in CalcUpdates : edit_calculation_patch(c, i, d, "none")
  \/ Idle /\ \E c \in CalcCredentials, i \in CalcIds : delete_calculation(c, i, "none")
  \/ Respond

SpecCalc == Init /\ [][NextCalc]_vars

\* one user adds calculations at different times and lists them
NextBrowse ==
  \/ Idle /\ register_user(CalcUsers[1][1], CalcUsers[1][2], <<"password1", "">>, "s1", "none")
  \/ Idle /\ \E c \in CalcCredentials, d \in CalcCreates : add_calculation(c, d, "none")
  \/ Idle /\ \E c \in CalcCredentials, p \in BrowsePages : browse_calculations(c, p[1], p[2])
  \/ Idle /\ \E c \in CalcCredentials, i \in CalcIds : delete_calculation(c, i, "none")
  \/ Tick
  \/ Respond

SpecBrowse == Init /\ [][NextBrowse]_vars

\* a user whose active flag is cleared goes on using the token
NextInactive ==
  \/ Idle /\ register_user(CalcUsers[1][1], CalcUsers[1][2], <<"password1", "">>, "s1", "none")
  \/ Idle /\ \E i \in UserIds : deactivate_user(i)
  \/ Idle /\ \E p \in Passwords : login_user(CalcUsers[1][1], p)
  \/ Idle /\ \E c \in CalcCredentials : get_current_user_info(c)
  \/ Idle /\ \E c \in CalcCredentials, d \in CalcCreates : add_calculation(c, d, "none")
  \/ Idle /\ \E c \in CalcCredentials, p \in Pages : browse_calculations(c, p[1], p[2])
  \/ Idle /\ \E c \in CalcCredentials, i \in CalcIds : read_calculation(c, i)
  \/ Idle /\ \E c \in CalcCredentials, i \in CalcIds, d \in CalcUpdates : edit_calculation(c, i, d, "none")
  \/ Idle /\ \E c \in CalcCredentials, i \in CalcIds, d \in CalcUpdates : edit_calculation_patch(c, i, d, "none")
  \/ Idle /\ \E c \in CalcCredentials, i \in CalcIds : delete_calculation(c, i, "none")
  \/ Respond

SpecInactive == Init /\ [][NextInactive]_vars

\* the functions of app/auth.py, called on their own
NextAuth ==
  \/ Idle /\ \E p \in Passwords \cup LongPasswords, s \in Salts : call_hash_password(p, s)
  \/ \E q \in Passwords \cup LongPasswords : call_verify_password(q)
  \/ Idle /\ \E u \in Usernames, d \in Deltas : call_create_access_token([sub |-> u], d)
  \/ \E t \in Times : call_decode_access_token(t)
  \/ Tick
  \/ Respond

SpecAuth == Init /\ [][NextAuth]_vars

\* the user endpoints, called with every kind of credentials
NextOpen ==
  \/ Idle /\ \E k \in DOMAIN CalcUsers :
       register_user(CalcUsers[k][1], CalcUsers[k][2], <<"password1", "">>, "s1", "none")
  \/ Idle /\ \E c \in Credentials, p \in Pages : get_users(c, p[1], p[2])
  \/ Idle /\ \E c \in Credentials, i \in UserIds : get_user(c, i)
  \/ Idle /\ \E c \in Credentials, i \in UserIds, d \in OpenUpdates, s \in Salts :
       update_user(c, i, d, s, "none")
  \/ Idle /\ \E c \in Credentials, i \in UserIds, m \in OnDelete :
       delete_user(c, i, m, "none")
  \/ Tick
  \/ Respond

SpecOpen == Init /\ [][NextOpen]_vars

\* the mutating endpoints, with a store whose commit or refresh can fail
NextFault ==
  \/ Idle /\ \E f \in Faults :
       register_user(CalcUsers[1][1], CalcUsers[1][2], <<"password1", "">>, "s1", f)
  \/ Idle /\ \E i \in UserIds, d \in OpenUpdates, s \in Salts, f \in Faults :
       update_user({}, i, d, s, f)
  \/ Idle /\ \E i \in UserIds, m \in OnDelete, f \in DeleteFaults :
       delete_user({}, i, m, f)
  \/ Idle /\ \E c \in CalcCredentials, d \in FaultCreates, f \in Faults :
       add_calculation(c, d, f)
  \/ Idle /\ \E c \in CalcCredentials, i \in CalcIds, d \in FaultUpdates, f \in Faults :
       edit_calculation(c, i, d, f)
  \/ Idle /\ \E c \in CalcCredentials, i \in CalcIds, d \in FaultUpdates, f \in Faults :
       edit_calculation_patch(c, i, d, f)
  \/ Idle /\ \E c \in CalcCredentials, i \in CalcIds, f \in DeleteFaults :
       delete_calculation(c, i, f)
  \/ Respond

SpecFault == Init /\ [][NextFault]_vars

\* one user registers, changes the password and logs in
NextPassword ==
  \/ Idle /\ \E p \in AllPasswords, s \in PasswordSalts :
       register_user(CalcUsers[1][1], CalcUsers[1][2], p, s, "none")
  \/ Idle /\ \E i \in UserIds, d \in PasswordUpdates, s \in PasswordSalts :
       update_user({}, i, d, s, "none")
  \/ Idle /\ \E u \in {CalcUsers[1][1], CalcUsers[1][2], "bob"}, p \in AllPasswords :
       login_user(u, p)
  \/ Respond

SpecPassword == Init /\ [][NextPassword]_vars

\* two edits of calculations that interleave
NextEditRace ==
  \/ Idle /\ register_user(CalcUsers[1][1], CalcUsers[1][2], <<"password1", "">>, "s1", "none")
  \/ Idle /\ \E c \in CalcCredentials, d \in RaceCreates : add_calculation(c, d, "none")
  \/ Idle /\ \E r \in Requests, t \in tokens, i \in CalcIds, d \in RaceUpdates :
       edit_calculation_load(r, {t}, i, d)
  \/ \E r \in Requests : edit_calculation_commit(r)
  \/ RespondAll
  \/ Respond

SpecEditRace == Init /\ [][NextEditRace]_vars

\* registrations and profile updates that interleave
NextUserRace ==
  \/ \E r \in Requests, u \in Usernames, e \in Emails :
       register_user_check(r, u, e, <<"password1", "">>, "s1")
  \/ \E r \in Requests : register_user_commit(r)
  \/ \E r \in Requests, i \in UserIds, d \in OpenUpdates :
       update_user_check(r, i, d, "s1")
  \/ \E r \in Requests : update_user_commit(r)
  \/ RespondAll

SpecUserRace == Init /\ [][NextUserRace]_vars

\* ---------------------------------------------------------- properties
CalcOps == {"add_calculation", "browse_calculations", "read_calculation",
            "edit_calculation", "delete_calculation"}

\* C1: read_calculation, edit_calculation (PUT and PATCH) and
\* delete_calculation by an authenticated caller on an id that is not the
\* id of a record of the caller -- a record of another user, or no record
\* at all -- answer 404 "Calculation not found" and change no stored row.
C1_ForeignCalculationNotFound ==
  [][(/\ last'.op \in {"read_calculation", "edit_calculation", "delete_calculation"}
      /\ last'.status \notin {401, 403, 422}
      /\ ~(last'.id \in DOMAIN calcs /\ calcs[last'.id].user_id = last'.uid))
     => (/\ last'.status = 404
         /\ last'.detail = "Calculation not found"
         /\ calcs' = calcs
         /\ users' = users)]_vars

C1_Witness ==
  /\ last.op = "edit_calculation"
  /\ last.status = 404
  /\ last.id \in DOMAIN calcs
  /\ last.uid \in DOMAIN users
  /\ calcs[last.id].user_id # last.uid
  /\ last.data.b # {}

C3_NoTokenIsRejected ==
  [][(last'.op \in CalcOps /\ last'.credentials = {})
     => (/\ last'.status \in {401, 403}
         /\ users' = users
         /\ calcs' = calcs)]_vars

C3_Witness ==
  /\ last.op = "delete_calculation"
  /\ last.credentials = {}
  /\ last.status = 403
  /\ DOMAIN calcs # {}

\* C4: every stored calculation has the result that calculate gives for
\* its a, b and type; calculate succeeds on them, so no stored row has
\* type divide with b = 0.
C4_ResultIsCalculated ==
  \A c \in DOMAIN calcs :
    /\ calculate(calcs[c].a, calcs[c].b, calcs[c].type).error = "none"
    /\ calcs[c].result = calculate(calcs[c].a, calcs[c].b, calcs[c].type).value
    /\ ~(calcs[c].type = "divide" /\ calcs[c].b = 0)

C4_Witness ==
  /\ last.op = "edit_calculation"
  /\ last.status = 200
  /\ last.data.type = {"divide"}
  /\ last.data.a # {}
  /\ calcs[last.id].result = <<3, 2>>

\* C5: no two stored users have the same username and no two stored users
\* have the same email.
C5_UniqueUsernameAndEmail ==
  \A i, j \in DOMAIN users :
    i # j => /\ users[i].username # users[j].username
             /\ users[i].email # users[j].email

C5_Witness ==
  /\ last.op = "update_user"
  /\ last.status = 200
  /\ Cardinality(DOMAIN users) = 2
  /\ last.user_data.username # {}
  /\ last.user_data.email # {}

\* C6: register_user with the username of a stored user or with the email
\* of a stored user answers 400, issues no token and leaves the users as
\* they are.
C6_DuplicateRegistrationIsConflict ==
  [][(/\ last'.op = "register_user"
      /\ last'.status # 422
      /\ \E i \in DOMAIN users : \/ users[i].username = last'.username
                                 \/ users[i].email = last'.email)
     => (/\ last'.status = 400
         /\ last'.token = {}
         /\ users' = users
         /\ tokens' = tokens)]_vars

C6_Witness ==
  /\ last.op = "register_user"
  /\ last.status = 400
  /\ last.detail = "Email already registered"
  /\ \A i \in DOMAIN users : users[i].username # last.username

\* C7: login_user with the username or with the email of a stored active
\* user and that user's password answers 200 with a token whose subject is
\* the username of that user.
C7_LoginOfActiveUserSucceeds ==
  last.op = "login_user" =>
    \A i \in DOMAIN users :
      (/\ users[i].is_active
       /\ last.username \in {users[i].username, users[i].email}
       /\ verify_password(last.password, users[i].password_hash))
      => (/\ last.status = 200
          /\ last.token # {}
          /\ The(last.token).sub = users[i].username)

\* C8: login_user answers 401 without a token when no stored user matches
\* or the password does not verify for the matched user (active or not),
\* 403 when the password verifies and the user is inactive, and a login
\* that fails changes nothing that is stored.
C8_LoginFailures ==
  [][last'.op = "login_user" =>
       LET matches == {i \in DOMAIN users :
                         last'.username \in {users[i].username, users[i].email}}
       IN /\ matches = {} => last'.status = 401
          /\ matches # {} =>
               /\ last'.uid \in matches
               /\ ~verify_password(last'.password, users[last'.uid].password_hash)
                    => last'.status = 401
               /\ (/\ verify_password(last'.password, users[last'.uid].password_hash)
                   /\ ~users[last'.uid].is_active)
                    => last'.status = 403
          /\ last'.status # 200 =>
               /\ last'.status \in {401, 403}
               /\ last'.token = {}
               /\ tokens' = tokens
               /\ users' = users
               /\ calcs' = calcs]_vars

C8_Witness ==
  /\ last.op = "login_user"
  /\ last.status = 401
  /\ last.uid \in DOMAIN users
  /\ ~users[last.uid].is_active
  /\ ~verify_password(last.password, users[last.uid].password_hash)

\* C9 as claimed: the resolver answers 401 whenever the token is absent,
\* malformed, badly signed, expired, without subject or names no stored
\* user, and yields a user only for a validating token whose subject is
\* the username of that user.
C9_EveryBadTokenIs401 ==
  last.op = "get_current_user_info" =>
    LET unusable ==
          \/ last.credentials = {}
          \/ LET token == The(last.credentials) IN
             \/ token.sig # "good"
             \/ token.exp < now
             \/ token.sub = NoSub
             \/ \A i \in DOMAIN users : users[i].username # token.sub
    IN /\ unusable => last.status = 401
       /\ last.status = 200 => ~unusable

\* C9 amended: a request without bearer token is answered 403 before the
\* resolver runs; the resolver answers 401 when the token is malformed,
\* badly signed, expired, without subject or names no stored user, and
\* yields a user only for a validating token whose subject is the username
\* of that user.
C9_BadTokenIs401AbsentIs403 ==
  last.op = "get_current_user_info" =>
    IF last.credentials = {} THEN last.status = 403
    ELSE LET token == The(last.credentials)
             unusable == \/ token.sig # "good"
                         \/ token.exp < now
                         \/ token.sub = NoSub
                         \/ \A i \in DOMAIN users : users[i].username # token.sub
         IN /\ unusable => last.status = 401
            /\ ~unusable => /\ last.status = 200
                            /\ last.uid \in DOMAIN users
                            /\ users[last.uid].username = token.sub
                            /\ last.body = {users[last.uid]}

C9_Witness ==
  /\ last.op = "get_current_user_info"
  /\ last.status = 401
  /\ last.credentials # {}
  /\ The(last.credentials).sig = "good"
  /\ The(last.credentials).exp < now
  /\ \E i \in DOMAIN users : users[i].username = The(last.credentials).sub

\* C10: a successful add_calculation adds exactly one row: it belongs to
\* the user named by the token, holds the a, b and type of the request and
\* the result add -> a+b, subtract -> a-b, multiply -> a*b, divide -> a/b;
\* the rows stored before are unchanged.
C10_AddStoresOneRow ==
  [][(last'.op = "add_calculation" /\ last'.status = 201) =>
       LET d == last'.data
           expected == CASE d.type = "add" -> Frac(d.a + d.b, 1)
                         [] d.type = "subtract" -> Frac(d.a - d.b, 1)
                         [] d.type = "multiply" -> Frac(d.a * d.b, 1)
                         [] d.type = "divide" -> Frac(d.a, d.b)
       IN \E id \in DOMAIN calcs' :
            /\ id \notin DOMAIN calcs
            /\ DOMAIN calcs' = DOMAIN calcs \cup {id}
            /\ \A c \in DOMAIN calcs : calcs'[c] = calcs[c]
            /\ calcs'[id].user_id \in DOMAIN users
            /\ users[calcs'[id].user_id].username = The(last'.credentials).sub
            /\ calcs'[id].a = d.a
            /\ calcs'[id].b = d.b
            /\ calcs'[id].type = d.type
            /\ calcs'[id].result = expected
            /\ last'.body = {[id |-> id] @@ calcs'[id]}]_vars

C10_Witness ==
  /\ last.op = "add_calculation"
  /\ last.status = 201
  /\ last.data.type = "divide"
  /\ Cardinality(DOMAIN calcs) = 2
  /\ \E c \in DOMAIN calcs : calcs[c].user_id # last.uid

\* C11: an add_calculation of an authenticated caller with type divide is
\* rejected exactly when b = 0, and one with a type outside add, subtract,
\* multiply, divide is always rejected; every rejected add_calculation
\* answers a 4xx status and stores no calculation.
C11_CreateRejection ==
  [][last'.op = "add_calculation" =>
       /\ last'.status \notin {401, 403} =>
            /\ last'.data.type = "divide" => (last'.status # 201 <=> last'.data.b = 0)
            /\ last'.data.type \notin OpTypes => last'.status # 201
       /\ last'.status # 201 =>
            /\ last'.status \in 400..499
            /\ calcs' = calcs
            /\ calc_seq' = calc_seq]_vars

C11_Witness ==
  /\ last.op = "add_calculation"
  /\ last.status \in {400, 422}
  /\ last.data.type = "divide"
  /\ last.data.b = 0
  /\ last.data.a # 0
  /\ \E c \in DOMAIN calcs : calcs[c].user_id = last.uid

\* C12: a successful edit_calculation (PUT or PATCH) by the owner sets
\* exactly the fields among a, b, type that the request supplies (a supplied
\* 0 is supplied), stores the result of the operation on the resulting a, b,
\* type, and leaves the fields not supplied, the id and user_id of the row
\* and every other stored calculation as they were.
C12_EditChangesSuppliedFields ==
  [][(last'.op = "edit_calculation" /\ last'.status = 200) =>
       LET d == last'.data
           id == last'.id
       IN /\ id \in DOMAIN calcs
          /\ calcs[id].user_id = last'.uid
          /\ DOMAIN calcs' = DOMAIN calcs
          /\ \A c \in DOMAIN calcs \ {id} : calcs'[c] = calcs[c]
          /\ calcs'[id].a = (IF d.a # {} THEN The(d.a) ELSE calcs[id].a)
          /\ calcs'[id].b = (IF d.b # {} THEN The(d.b) ELSE calcs[id].b)
          /\ calcs'[id].type = (IF d.type # {} THEN The(d.type) ELSE calcs[id].type)
          /\ calcs'[id].user_id = calcs[id].user_id
          /\ calcs'[id].created_at = calcs[id].created_at
          /\ calcs'[id].result =
               (CASE calcs'[id].type = "add" -> Frac(calcs'[id].a + calcs'[id].b, 1)
                  [] calcs'[id].type = "subtract" -> Frac(calcs'[id].a - calcs'[id].b, 1)
                  [] calcs'[id].type = "multiply" -> Frac(calcs'[id].a * calcs'[id].b, 1)
                  [] calcs'[id].type = "divide" -> Frac(calcs'[id].a, calcs'[id].b))
          /\ last'.body = {[id |-> id] @@ calcs'[id]}
          /\ users' = users]_vars

C12_Witness ==
  /\ last.op = "edit_calculation"
  /\ last.status = 200
  /\ last.data.a = {0}
  /\ last.data.b = {}
  /\ last.data.type = {}
  /\ calcs[last.id].a = 0
  /\ calcs[last.id].b = 2
  /\ calcs[last.id].type = "subtract"
  /\ Cardinality(DOMAIN calcs) = 2

\* C13: when the a, b, type of an owner's row merged with the supplied
\* fields is a division by 0 or has an invalid type, edit_calculation
\* answers 400 and every stored calculation keeps its a, b, type and
\* result; read_calculation answers with the row as it is stored, so a
\* read after the failed edit shows the values from before it.
C13_FailedEditKeepsRow ==
  [][/\ (/\ last'.op = "edit_calculation"
         /\ last'.status \notin {401, 403, 422}
         /\ last'.id \in DOMAIN calcs
         /\ calcs[last'.id].user_id = last'.uid) =>
          LET d == last'.data
              old == calcs[last'.id]
              b == IF d.b # {} THEN The(d.b) ELSE old.b
              type == IF d.type # {} THEN The(d.type) ELSE old.type
              fails == (type = "divide" /\ b = 0) \/ type \notin OpTypes
          IN /\ fails => /\ last'.status = 400
                          /\ last'.body = {}
                          /\ calcs' = calcs
             /\ last'.status = 400 => fails
     /\ (last'.op = "read_calculation" /\ last'.status = 200) =>
          /\ calcs' = calcs
          /\ last'.body = {[id |-> last'.id] @@ calcs[last'.id]}]_vars

C13_Witness ==
  /\ last.op = "edit_calculation"
  /\ last.status = 400
  /\ last.data.b = {0}
  /\ last.data.type = {}
  /\ calcs[last.id].type = "divide"
  /\ calcs[last.id].b = 2
  /\ calcs[last.id].result = <<3, 2>>

\* C14: edit_calculation by the owner with none of a, b, type supplied
\* answers 200 with the row as it is stored and changes nothing that is
\* stored.
C14_EmptyEditIsNoOp ==
  [][(/\ last'.op = "edit_calculation"
      /\ last'.status \notin {401, 403, 422}
      /\ last'.id \in DOMAIN calcs
      /\ calcs[last'.id].user_id = last'.uid
      /\ last'.data.a = {}
      /\ last'.data.b = {}
      /\ last'.data.type = {})
     => (/\ last'.status = 200
         /\ last'.body = {[id |-> last'.id] @@ calcs[last'.id]}
         /\ calcs' = calcs
         /\ calc_seq' = calc_seq
         /\ users' = users)]_vars

C14_Witness ==
  /\ last.op = "edit_calculation"
  /\ last.status = 200
  /\ last.data.a = {}
  /\ last.data.b = {}
  /\ last.data.type = {}
  /\ calcs[last.id].a = 3
  /\ calcs[last.id].type = "divide"

\* C15: when edit_calculation has answered a request on a row of the
\* caller, the same request applied again to the row as it is now stored
\* gets the same status, detail and returned row and stores the same a, b,
\* type and result -- after a successful edit and after a rejected one; an
\* edit answered 404 leaves the row missing, so it is answered 404 again.
C15_EditIsIdempotent ==
  [][(last'.op = "edit_calculation" /\ last'.status \notin {401, 403, 422}) =>
       IF last'.status = 404
       THEN /\ calcs' = calcs
            /\ ~(/\ last'.id \in DOMAIN calcs'
                 /\ calcs'[last'.id].user_id = last'.uid)
       ELSE LET again == EditOutcome(calcs'[last'.id], last'.data) IN
            /\ again.stored = calcs'[last'.id]
            /\ again.status = last'.status
            /\ again.detail = last'.detail
            /\ {[id |-> last'.id] @@ x : x \in again.returned} = last'.body]_vars

C15_Witness ==
  /\ last.op = "edit_calculation"
  /\ last.status = 200
  /\ last.data.a = {3}
  /\ last.data.type = {"multiply"}
  /\ last.data.b = {}
  /\ calcs[last.id].b = 2
  /\ calcs[last.id].result = <<6, 1>>

\* C16: a successful delete_calculation by the owner removes that row and
\* no other, answers with the confirmation message and leaves every other
\* stored calculation as it was; read, edit and delete of an id that has
\* no row answer 404, so they do in the state right after the delete.
C16_DeleteRemovesOneRow ==
  [][/\ (last'.op = "delete_calculation" /\ last'.status = 200) =>
          /\ last'.id \in DOMAIN calcs
          /\ calcs[last'.id].user_id = last'.uid
          /\ DOMAIN calcs' = DOMAIN calcs \ {last'.id}
          /\ \A c \in DOMAIN calcs' : calcs'[c] = calcs[c]
          /\ last'.detail = "deleted successfully"
          /\ users' = users
     /\ (/\ last'.op \in {"read_calculation", "edit_calculation", "delete_calculation"}
         /\ last'.status \notin {401, 403, 422}
         /\ last'.id \notin DOMAIN calcs) =>
          /\ last'.status = 404
          /\ calcs' = calcs]_vars

C16_Witness ==
  /\ last.op = "delete_calculation"
  /\ last.status = 200
  /\ last.id \notin DOMAIN calcs
  /\ \E c \in DOMAIN calcs : calcs[c].user_id = last.uid

\* C17: browse_calculations answers an authenticated caller with the
\* caller's rows, newest first, without the first skip of them and with at
\* most min(limit, 1000) rows, for every integer skip and limit.
C17_BrowseIsSortedAndCapped ==
  (last.op = "browse_calculations" /\ last.status \notin {401, 403}) =>
    /\ last.status = 200
    /\ \A i \in 1..Len(last.body) : last.body[i].user_id = last.uid
    /\ \A i, j \in 1..Len(last.body) :
         i < j => last.body[i].created_at >= last.body[j].created_at
    /\ Len(last.body) <= Min2(last.limit, MaxLimit)
    /\ last.skip >= 0 =>
         Len(last.body) <= Max({0, Cardinality(OwnedBy(last.uid)) - last.skip})

\* C18: for every claims set and every ttl, decode_access_token of the
\* token that create_access_token made returns a payload with the claims
\* at every time before issue time + ttl and None at every time after it.
C18_TokenRoundTrip ==
  last.op = "decode_access_token" =>
    LET ttl == IF last.expires_delta = {} THEN ACCESS_TOKEN_EXPIRE_MINUTES
               ELSE The(last.expires_delta)
    IN /\ now < last.issued + ttl =>
            /\ last.payload # {}
            /\ The(last.payload).sub = last.data.sub
       /\ now > last.issued + ttl => last.payload = {}

\* C19: verify_password of a password and a digest that hash_password
\* returned for it is true, and verify_password of any other string and
\* that digest is false, never an exception.
C19_VerifyMatchesOnlyThePassword ==
  last.op = "verify_password" =>
    /\ last.error = "none"
    /\ last.value = (last.plain_password = last.password)

\* C20: a successful register_user returns a token whose subject is the
\* username of the user it stored; and GET /users/me with a validly signed,
\* unexpired token answers 200 with the stored user that has the subject
\* as username, whoever else is stored -- so the token of a registration
\* resolves to the registered user for as long as it is unexpired and the
\* user is stored under that username.
C20_RegistrationTokenResolves ==
  /\ (last.op = "register_user" /\ last.status = 201) =>
       /\ last.token # {}
       /\ The(last.token).sub = last.username
       /\ The(last.token).sig = "good"
       /\ The(last.token).exp > now
       /\ last.uid \in DOMAIN users
       /\ users[last.uid].username = last.username
       /\ get_current_user_dependency(last.token) = {[status |-> 200, uid |-> last.uid]}
  /\ (last.op = "get_current_user_info" /\ last.credentials # {}) =>
       LET token == The(last.credentials) IN
       \A i \in DOMAIN users :
         (/\ token.sig = "good"
          /\ token.exp >= now
          /\ users[i].username = token.sub)
         => (/\ last.status = 200
             /\ last.uid = i
             /\ last.body = {users[i]})

C20_Witness ==
  /\ last.op = "get_current_user_info"
  /\ last.status = 200
  /\ now > 0
  /\ The(last.credentials).exp = ACCESS_TOKEN_EXPIRE_MINUTES
  /\ Cardinality(DOMAIN users) = 2
  /\ ~users[last.uid].is_active
  /\ \E i \in DOMAIN users : users[i].email = The(last.credentials).sub

\* C27: update_user of a stored user answers 400 exactly when the supplied
\* username or the supplied email is that of a stored user with another id
\* (the user's own username or email is no conflict), and an update_user
\* that does not answer 200 leaves every stored user as it was -- a free
\* new username sent with a taken email is not stored.
C27_UpdateConflict ==
  [][(last'.op = "update_user" /\ last'.id \in DOMAIN users) =>
       LET d == last'.user_data
           conflict ==
             \E i \in DOMAIN users \ {last'.id} :
               \/ d.username # {} /\ users[i].username = The(d.username)
               \/ d.email # {} /\ users[i].email = The(d.email)
       IN /\ last'.status = 400 <=> conflict
          /\ last'.status # 200 => users' = users
          /\ (last'.status = 200 /\ d.username # {}) =>
               users'[last'.id].username = The(d.username)
          /\ (last'.status = 200 /\ d.email # {}) =>
               users'[last'.id].email = The(d.email)]_vars

C27_Witness ==
  /\ last.op = "update_user"
  /\ last.status = 400
  /\ last.detail = "Email already taken"
  /\ last.user_data.username # {}
  /\ \A i \in DOMAIN users : users[i].username # The(last.user_data.username)
  /\ last.id \in DOMAIN users

\* C28: create_access_token embeds the expiry issue time + expires_delta
\* for every expires_delta that is supplied, zero and negative ones
\* included, and issue time + ACCESS_TOKEN_EXPIRE_MINUTES only when
\* expires_delta is None; the subject is the one of the caller's claims.
C28_ExpiryIsIssuePlusDelta ==
  last.op = "create_access_token" =>
    /\ last.token.sub = last.data.sub
    /\ last.token.exp =
         last.issued + (IF last.expires_delta = {} THEN ACCESS_TOKEN_EXPIRE_MINUTES
                        ELSE The(last.expires_delta))

\* C26: a token that register_user or login_user issued to the user with
\* id u resolves, when it resolves, to the user with id u -- whatever
\* update_user, delete_user and register_user requests came in between.
C26_TokenResolvesToItsUser ==
  (/\ last.op = "get_current_user_info"
   /\ last.status = 200
   /\ "issued_to" \in DOMAIN The(last.credentials))
  => last.uid = The(last.credentials).issued_to

\* C23: get_current_user_dependency does not look at is_active: GET
\* /users/me and every calculation endpoint resolve a validly signed,
\* unexpired token to the stored user with its subject as username, active
\* or not; they answer 403 only to a request without bearer token, and
\* login_user answers 403 only for an inactive user.
C23_InactiveUserStillResolves ==
  /\ (last.op \in CalcOps \cup {"get_current_user_info"} /\ last.credentials # {}) =>
       /\ last.status # 403
       /\ \A i \in DOMAIN users :
            (/\ The(last.credentials).sig = "good"
             /\ The(last.credentials).exp >= now
             /\ users[i].username = The(last.credentials).sub)
            => (last.status # 401 /\ last.uid = i)
  /\ (last.op = "login_user" /\ last.status = 403) => ~users[last.uid].is_active

C23_Witness ==
  /\ last.op = "edit_calculation"
  /\ last.status = 200
  /\ last.data.b # {}
  /\ ~users[last.uid].is_active
  /\ calcs[last.id].user_id = last.uid

\* C21: get_users, get_user, update_user and delete_user never consult a
\* token: no credentials make them answer 401 or 403, and what they answer
\* and do is decided by the store, the id and the body alone, so that a
\* caller without token, with a bad token or with the token of another user
\* reads, updates and deletes any user.
UserOps == {"get_users", "get_user", "update_user", "delete_user"}

C21_UserEndpointsIgnoreTheToken ==
  [][last'.op \in UserOps =>
       /\ last'.status \notin {401, 403}
       /\ last'.op = "get_users" => last'.status = 200
       /\ last'.op # "get_users" =>
            (last'.status = 404 <=> last'.id \notin DOMAIN users)
       /\ (last'.op = "get_user" /\ last'.id \in DOMAIN users) =>
            (last'.status = 200 /\ last'.body = {users[last'.id]})
       /\ (last'.op = "delete_user" /\ last'.id \in DOMAIN users) =>
            (last'.status = 200 /\ last'.id \notin DOMAIN users')
       /\ (last'.op = "update_user" /\ last'.id \in DOMAIN users) =>
            /\ last'.status \in {200, 400}
            /\ last'.status = 200 =>
                 \A u \in last'.user_data.username : users'[last'.id].username = u
     ]_vars

\* a user is deleted by a request that carries the token of another user
C21_Witness ==
  /\ last.op = "delete_user" /\ last.status = 200
  /\ last.credentials # {}
  /\ "issued_to" \in DOMAIN The(last.credentials)
  /\ The(last.credentials).issued_to # last.id
  /\ last.id \notin DOMAIN users

\* C22: when commit or refresh fails in a mutating endpoint, the handler
\* catches the failure, rolls back, answers 500 and the store is as it was
\* before the request.
MutatingOps == {"register_user", "update_user", "delete_user", "add_calculation",
                "edit_calculation", "delete_calculation"}

C22_StoreFailureIsHandled ==
  [][(/\ last'.op \in MutatingOps
      /\ last'.status = 500
      /\ "error" \in DOMAIN last'
      /\ last'.error \in Faults) =>
       /\ last'.handled
       /\ users' = users
       /\ calcs' = calcs
     ]_vars

\* C29: an update of an active user that sets the password p2 makes a login
\* with p2 succeed and a login with any other password that was accepted
\* before fail with 401; the other fields stay, and an update without
\* password keeps the password hash.
C29_PasswordChange ==
  [][(/\ last'.op = "update_user" /\ last'.status = 200
      /\ last'.id \in DOMAIN users
      /\ users[last'.id].is_active) =>
       LET before == users[last'.id]
           after == users'[last'.id]
       IN /\ after.is_active = before.is_active
          /\ last'.user_data.username = {} => after.username = before.username
          /\ last'.user_data.email = {} => after.email = before.email
          /\ last'.user_data.password = {} => after.password_hash = before.password_hash
          /\ \A p2 \in last'.user_data.password :
               /\ LoginStatus(after, p2) = 200
               /\ \A p1 \in AllPasswords :
                    (p1 # p2 /\ verify_password(p1, before.password_hash))
                    => LoginStatus(after, p1) = 401
     ]_vars

\* the row that two edits leave when one runs after the other
Serial(row, first_data, second_data) ==
  EditOutcome(EditOutcome(row, first_data).stored, second_data).stored

\* C24: when two edit_calculation requests on one row interleave and both
\* answer 200, the stored row is the one that one of the two serial orders
\* leaves, its result is calculate(a, b, type), and it is no division by 0.
C24_InterleavedEditsAreSerial ==
  \A q, r \in DOMAIN sessions :
    (/\ q # r
     /\ sessions[q].op = "edit_calculation" /\ sessions[r].op = "edit_calculation"
     /\ sessions[q].pc = "done" /\ sessions[r].pc = "done"
     /\ sessions[q].status = 200 /\ sessions[r].status = 200
     /\ sessions[q].id = sessions[r].id
     /\ sessions[q].alone) =>
      LET row == The(sessions[q].loaded)
          stored == calcs[sessions[q].id]
          c == calculate(stored.a, stored.b, stored.type)
      IN /\ stored \in {Serial(row, sessions[q].data, sessions[r].data),
                         Serial(row, sessions[r].data, sessions[q].data)}
         /\ c.error = "none"
         /\ stored.result = c.value
         /\ ~(stored.type = "divide" /\ stored.b = 0)

====
